---- MODULE Spec2Model ----
(***************************************************************************)
(* Model of merge-sorted-files-rs: the Heap merger of src/lib.rs           *)
(* (add_reader, readd_reader, Iterator::next, print_sorted_lines) over     *)
(* std::collections::BinaryHeap<Entry>, ordered by Entry::cmp, and the     *)
(* driver, main of src/main.rs.                                            *)
(*                                                                         *)
(* A string is a sequence of code points (Rust compares Strings byte-wise; *)
(* for the characters used here that is code point order).  A reader is    *)
(* the unread remainder of its byte stream together with the identity of   *)
(* the stream (the number of the add_reader call that brought it in).      *)
(***************************************************************************)
EXTENDS Integers, Sequences, FiniteSets, TLC

VARIABLES heap, inputs, log, last, pc, stdout, drainRet, drainFrom, args, mainRet

vars == <<heap, inputs, log, last, pc, stdout, drainRet, drainFrom, args, mainRet>>

(***************************************************************************)
(* Bounds of the model.                                                    *)
(***************************************************************************)
\* number of add_reader calls
MaxReaders == 2
\* records of all input streams together
MaxTotalLines == 3
\* next() calls that return end-of-sequence
MaxEnd == 1
\* reads that fail
MaxFails == 1

(***************************************************************************)
(* Inputs: the lines "a" and "b " (a space after the b), two labels.       *)
(***************************************************************************)
NL == <<10>>
LineSet == { <<97>>, <<98, 32>> }
Labels == { "file1", "file2" }

RECURSIVE Join(_)
\* the byte stream holding the records ls with a line feed between them, as
\* the streams of the tests ("a\nc")
Join(ls) ==
    IF ls = <<>> THEN <<>>
    ELSE IF Len(ls) = 1 THEN ls[1]
    ELSE ls[1] \o NL \o Join(Tail(ls))

\* the streams of n records
StreamsOf(n) == { Join(ls) : ls \in [1..n -> LineSet] }

RECURSIVE CountNL(_)
\* the line feeds of a byte stream
CountNL(bytes) ==
    IF bytes = <<>> THEN 0
    ELSE (IF bytes[1] = NL[1] THEN 1 ELSE 0) + CountNL(Tail(bytes))

RECURSIVE TotalLines(_)
\* the records read_line gives for the streams ins: one for each line feed
\* and one for the bytes after the last line feed, if there are any
TotalLines(ins) ==
    IF ins = <<>> THEN 0
    ELSE LET bytes == ins[1].bytes IN
         CountNL(bytes)
             + (IF bytes # <<>> /\ bytes[Len(bytes)] # NL[1] THEN 1 ELSE 0)
             + TotalLines(Tail(ins))

(***************************************************************************)
(* Strings.                                                                *)
(***************************************************************************)
\* char::is_whitespace: the Unicode White_Space code points
WhiteSpace == {9, 10, 11, 12, 13, 32, 133, 160, 5760, 8232, 8233, 8239, 8287, 12288}
                  \cup (8192..8202)

RECURSIVE TrimEnd(_)
\* str::trim_end: the string without its trailing whitespace
TrimEnd(s) ==
    IF s # <<>> /\ s[Len(s)] \in WhiteSpace
    THEN TrimEnd(SubSeq(s, 1, Len(s) - 1))
    ELSE s

RECURSIVE StrCmp(_, _)
\* Ord for String: lexicographic comparison
StrCmp(s, t) ==
    IF s = <<>> /\ t = <<>> THEN "Equal"
    ELSE IF s = <<>> THEN "Less"
    ELSE IF t = <<>> THEN "Greater"
    ELSE IF s[1] < t[1] THEN "Less"
    ELSE IF s[1] > t[1] THEN "Greater"
    ELSE StrCmp(Tail(s), Tail(t))

\* next_line.unwrap() < first_line
StrLess(s, t) == StrCmp(s, t) = "Less"

\* cmp::Ordering::reverse
Reverse(o) == IF o = "Less" THEN "Greater" ELSE IF o = "Greater" THEN "Less" ELSE "Equal"

(***************************************************************************)
(* Entry and its ordering.                                                 *)
(***************************************************************************)
\* struct Entry { filename, reader, first_line }
Entry(filename, reader, first_line) ==
    [filename |-> filename, reader |-> reader, first_line |-> first_line]

\* PartialEq for Entry
EntryEq(x, y) == x.filename = y.filename

\* Ord for Entry
EntryCmp(x, y) ==
    IF EntryEq(x, y) THEN "Equal"
    ELSE Reverse(StrCmp(x.first_line, y.first_line))

\* PartialOrd::le, derived from partial_cmp
EntryLe(x, y) == EntryCmp(x, y) \in {"Less", "Equal"}

(***************************************************************************)
(* BinaryHeap<Entry>: a max-heap in a vector, indices from 0 as in std.    *)
(***************************************************************************)
At(data, i) == data[i + 1]

Swap(data, i, j) ==
    [k \in 1..Len(data) |->
        IF k = i + 1 THEN data[j + 1] ELSE IF k = j + 1 THEN data[i + 1] ELSE data[k]]

RECURSIVE SiftUp(_, _, _)
\* BinaryHeap::sift_up(start, pos)
SiftUp(data, start, pos) ==
    IF pos > start
    THEN LET parent == (pos - 1) \div 2 IN
         IF EntryLe(At(data, pos), At(data, parent))
         THEN data
         ELSE SiftUp(Swap(data, pos, parent), start, parent)
    ELSE data

RECURSIVE SiftDown(_, _, _)
\* the loop of BinaryHeap::sift_down_to_bottom: the hole goes down to a leaf,
\* each time to the greater child (the right one on a tie); <<data, pos>>
SiftDown(data, pos, end) ==
    LET child == 2 * pos + 1 IN
    IF end >= 2 /\ child <= end - 2
    THEN LET c == IF EntryLe(At(data, child), At(data, child + 1))
                  THEN child + 1 ELSE child
         IN  SiftDown(Swap(data, pos, c), c, end)
    ELSE IF child = end - 1
    THEN <<Swap(data, pos, child), child>>
    ELSE <<data, pos>>

\* BinaryHeap::sift_down_to_bottom(0)
SiftDownToBottom(data) ==
    LET r == SiftDown(data, 0, Len(data)) IN SiftUp(r[1], 0, r[2])

\* BinaryHeap::push
HeapPush(data, item) == SiftUp(Append(data, item), 0, Len(data))

\* BinaryHeap::pop on a non-empty heap: [item, data]
HeapPop(data) ==
    LET lastItem == data[Len(data)]
        rest == SubSeq(data, 1, Len(data) - 1)
    IN  IF rest = <<>>
        THEN [item |-> lastItem, data |-> rest]
        ELSE [item |-> rest[1],
              data |-> SiftDownToBottom([rest EXCEPT ![1] = lastItem])]

(***************************************************************************)
(* Results: Option<io::Result<String>> of next(), io::Result<Option<      *)
(* String>> of add_reader, as records of one shape.                        *)
(***************************************************************************)
\* None of next(), Ok(None) of add_reader
RetNone == [kind |-> "None", line |-> <<>>, label |-> ""]
\* Some(Ok(line)) of next(), Ok(Some(line)) of add_reader
RetLine(s) == [kind |-> "Line", line |-> s, label |-> ""]
\* io::Error::new(ErrorKind::Other, "Input lines in file [label] out of order!")
RetOutOfOrder(filename) == [kind |-> "ErrOther", line |-> <<>>, label |-> filename]
\* the io::Error of a failed read
RetReadErr == [kind |-> "ErrRead", line |-> <<>>, label |-> ""]

\* Ok(()) of print_sorted_lines
RetOk == [kind |-> "Ok", line |-> <<>>, label |-> ""]

IsErr(r) == r.kind \in {"ErrOther", "ErrRead"}

(***************************************************************************)
(* Reading.                                                                *)
(***************************************************************************)
RECURSIVE LineEnd(_, _)
\* the index of the first line feed of s at or after i, Len(s) if there is none
LineEnd(s, i) ==
    IF i >= Len(s) THEN Len(s)
    ELSE IF s[i] = NL[1] THEN i
    ELSE LineEnd(s, i + 1)

\* BufRead::read_line on the unread bytes: the bytes up to and including the
\* first line feed (all of them if there is none), their number, and the rest
ReadLine(bytes) ==
    LET n == IF bytes = <<>> THEN 0 ELSE LineEnd(bytes, 1) IN
    [n |-> n, buf |-> SubSeq(bytes, 1, n), rest |-> SubSeq(bytes, n + 1, Len(bytes))]

\* readd_reader taking a failed read for the end of the stream
ReaddReader_SwallowError(data, filename, reader, fail) ==
    LET r == ReadLine(reader.rest) IN
    IF ~fail /\ r.n > 0
    THEN LET first_line == TrimEnd(r.buf) IN
         [heap |-> HeapPush(data,
                      Entry(filename, [id |-> reader.id, rest |-> r.rest], first_line)),
          ret |-> RetLine(first_line)]
    ELSE [heap |-> data, ret |-> RetNone]

\* Heap::readd_reader: [heap, ret]
ReaddReader(data, filename, reader, fail) ==
    IF fail
    THEN [heap |-> data, ret |-> RetReadErr]
    ELSE LET r == ReadLine(reader.rest) IN
         IF r.n > 0
         THEN LET first_line == TrimEnd(r.buf) IN
              [heap |-> HeapPush(data,
                           Entry(filename, [id |-> reader.id, rest |-> r.rest], first_line)),
               ret |-> RetLine(first_line)]
         ELSE [heap |-> data, ret |-> RetNone]

\* the match of next with the comparison the other way round
NextResult_ReversedCompare(filename, first_line, next_line_result) ==
    IF next_line_result.kind = "ErrRead"
    THEN next_line_result
    ELSE IF next_line_result.kind = "Line" /\ StrLess(first_line, next_line_result.line)
    THEN RetOutOfOrder(filename)
    ELSE RetLine(first_line)

\* the match of next returning the popped line also when the read failed
NextResult_HeadOnReadError(filename, first_line, next_line_result) ==
    IF next_line_result.kind = "Line" /\ StrLess(next_line_result.line, first_line)
    THEN RetOutOfOrder(filename)
    ELSE RetLine(first_line)

\* the match of next taking an equal following line for a violation too
NextResult_ErrorOnEqual(filename, first_line, next_line_result) ==
    IF next_line_result.kind = "ErrRead"
    THEN next_line_result
    ELSE IF next_line_result.kind = "Line" /\ ~StrLess(first_line, next_line_result.line)
    THEN RetOutOfOrder(filename)
    ELSE RetLine(first_line)

\* the match of Heap::next on the result of readd_reader
NextResult(filename, first_line, next_line_result) ==
    IF next_line_result.kind = "ErrRead"
    THEN next_line_result
    ELSE IF next_line_result.kind = "Line" /\ StrLess(next_line_result.line, first_line)
    THEN RetOutOfOrder(filename)
    ELSE RetLine(first_line)

\* the stream of the popped entry, 0 when nothing was popped
PoppedId(popped) == IF popped = <<>> THEN 0 ELSE popped[1].reader.id

\* next ending the sequence when the popped stream has no further line
NextOp_EndWhenExhausted(data, fail) ==
    IF data = <<>>
    THEN [heap |-> data, ret |-> RetNone, popped |-> <<>>]
    ELSE LET p == HeapPop(data)
             rr == ReaddReader(p.data, p.item.filename, p.item.reader, fail)
         IN  [heap |-> rr.heap,
              ret |-> IF rr.ret.kind = "None" THEN RetNone
                      ELSE NextResult(p.item.filename, p.item.first_line, rr.ret),
              popped |-> <<p.item>>]

\* next dropping the cursor of a stream whose lines are out of order
NextOp_DiscardOnViolation(data, fail) ==
    IF data = <<>>
    THEN [heap |-> data, ret |-> RetNone, popped |-> <<>>]
    ELSE LET p == HeapPop(data)
             rr == ReaddReader(p.data, p.item.filename, p.item.reader, fail)
             ret == NextResult(p.item.filename, p.item.first_line, rr.ret)
         IN  [heap |-> IF ret.kind = "ErrOther" THEN p.data ELSE rr.heap,
              ret |-> ret,
              popped |-> <<p.item>>]

\* Iterator::next for Heap: [heap, ret, popped]
NextOp(data, fail) ==
    IF data = <<>>
    THEN [heap |-> data, ret |-> RetNone, popped |-> <<>>]
    ELSE LET p == HeapPop(data)
             rr == ReaddReader(p.data, p.item.filename, p.item.reader, fail)
         IN  [heap |-> rr.heap,
              ret |-> NextResult(p.item.filename, p.item.first_line, rr.ret),
              popped |-> <<p.item>>]

(***************************************************************************)
(* State.                                                                  *)
(*   heap      Heap.heap, the vector of the BinaryHeap                     *)
(*   inputs    the streams handed to add_reader so far, with their labels  *)
(*   log       the calls of add_reader and next so far: the result,        *)
(*             whether the read failed, the stream added or popped         *)
(*   last      the last call: its result, the heap before it, the entry it *)
(*             popped                                                      *)
(*   pc        "idle" until print_sorted_lines is called, "returned"       *)
(*             after it; it is the last call made, as in main              *)
(*   stdout    the lines print_sorted_lines has written                    *)
(*   drainRet  what print_sorted_lines returned                            *)
(*   drainFrom the length of log when print_sorted_lines was called        *)
(*   args      the file arguments of main: path, whether the file opens,   *)
(*             its bytes, whether its first read fails (none when the      *)
(*             library is used without main)                               *)
(*   mainRet   how the run of main ended, NotReturned before               *)
(***************************************************************************)
NoCall == [op |-> "none", ret |-> RetNone, fail |-> FALSE, pre |-> <<>>, popped |-> <<>>]

Ends == Cardinality({i \in 1..Len(log) : log[i].op = "next" /\ log[i].ret.kind = "None"})

Fails == Cardinality({i \in 1..Len(log) : log[i].fail})

\* main has not returned
NotReturned == [kind |-> "Running", line |-> <<>>, label |-> ""]

Init ==
    /\ heap = <<>>
    /\ inputs = <<>>
    /\ log = <<>>
    /\ last = NoCall
    /\ pc = "idle"
    /\ stdout = <<>>
    /\ drainRet = RetNone
    /\ drainFrom = 0
    /\ args = <<>>
    /\ mainRet = NotReturned

\* add_reader inserting a cursor without looking at the number of bytes read
AddReader_InsertAtEof(filename, bytes, fail) ==
    /\ pc = "idle"
    /\ Len(inputs) < MaxReaders
    /\ fail => (Fails < MaxFails /\ bytes = <<>>)
    /\ LET r == ReaddReader(heap, filename, [id |-> Len(inputs) + 1, rest |-> bytes], fail)
           h == IF r.ret.kind = "None"
                THEN HeapPush(heap, Entry(filename, [id |-> Len(inputs) + 1, rest |-> <<>>], <<>>))
                ELSE r.heap
       IN
       /\ heap' = h
       /\ inputs' = Append(inputs, [filename |-> filename, bytes |-> bytes])
       /\ log' = Append(log, [op |-> "add_reader", ret |-> r.ret, fail |-> fail, id |-> Len(inputs) + 1])
       /\ last' = [op |-> "add_reader", ret |-> r.ret, fail |-> fail,
                   pre |-> heap, popped |-> <<>>]
    /\ UNCHANGED <<pc, stdout, drainRet, drainFrom>>

\* add_reader taking no stream once next() has returned end-of-sequence
AddReader_RefuseAfterEnd(filename, bytes, fail) ==
    /\ pc = "idle"
    /\ Len(inputs) < MaxReaders
    /\ fail => (Fails < MaxFails /\ bytes = <<>>)
    /\ LET r == IF Ends > 0
                THEN [heap |-> heap, ret |-> RetNone]
                ELSE ReaddReader(heap, filename, [id |-> Len(inputs) + 1, rest |-> bytes], fail)
       IN
       /\ heap' = r.heap
       /\ inputs' = Append(inputs, [filename |-> filename, bytes |-> bytes])
       /\ log' = Append(log, [op |-> "add_reader", ret |-> r.ret, fail |-> fail, id |-> Len(inputs) + 1])
       /\ last' = [op |-> "add_reader", ret |-> r.ret, fail |-> fail,
                   pre |-> heap, popped |-> <<>>]
    /\ UNCHANGED <<pc, stdout, drainRet, drainFrom>>

\* heap.add_reader(filename, bytes), the read failing or not
AddReader(filename, bytes, fail) ==
    /\ pc = "idle"
    /\ Len(inputs) < MaxReaders
    /\ fail => (Fails < MaxFails /\ bytes = <<>>)
    /\ LET r == ReaddReader(heap, filename, [id |-> Len(inputs) + 1, rest |-> bytes], fail) IN
       /\ heap' = r.heap
       /\ inputs' = Append(inputs, [filename |-> filename, bytes |-> bytes])
       /\ log' = Append(log, [op |-> "add_reader", ret |-> r.ret, fail |-> fail, id |-> Len(inputs) + 1])
       /\ last' = [op |-> "add_reader", ret |-> r.ret, fail |-> fail,
                   pre |-> heap, popped |-> <<>>]
    /\ UNCHANGED <<pc, stdout, drainRet, drainFrom>>

\* heap.next(), the read of the following line failing or not
NextCall(fail) ==
    /\ pc = "idle"
    /\ heap = <<>> => (~fail /\ Ends < MaxEnd)
    /\ fail => Fails < MaxFails
    /\ LET r == NextOp(heap, fail) IN
       /\ heap' = r.heap
       /\ log' = Append(log, [op |-> "next", ret |-> r.ret, fail |-> fail, id |-> PoppedId(r.popped)])
       /\ last' = [op |-> "next", ret |-> r.ret, fail |-> fail,
                   pre |-> heap, popped |-> r.popped]
    /\ UNCHANGED <<inputs, pc, stdout, drainRet, drainFrom>>

RECURSIVE DrainLoop_SkipErrors(_, _, _)
\* the loop of print_sorted_lines going on after an error
DrainLoop_SkipErrors(data, failAt, k) ==
    LET fail == data # <<>> /\ failAt = k + 1
        r == NextOp(data, fail)
        call == [op |-> "next", ret |-> r.ret, fail |-> fail, id |-> PoppedId(r.popped)]
        lastCall == [op |-> "next", ret |-> r.ret, fail |-> fail,
                     pre |-> data, popped |-> r.popped]
    IN  IF r.ret.kind = "None"
        THEN [heap |-> r.heap, calls |-> <<call>>, last |-> lastCall, out |-> <<>>,
              ret |-> RetOk]
        ELSE LET d == DrainLoop_SkipErrors(r.heap, failAt, k + 1) IN
             [heap |-> d.heap, calls |-> <<call>> \o d.calls, last |-> d.last,
              out |-> (IF r.ret.kind = "Line" THEN <<r.ret.line>> ELSE <<>>) \o d.out,
              ret |-> d.ret]

RECURSIVE DrainLoop(_, _, _)
\* the loop of Heap::print_sorted_lines after k calls of next(), the read of
\* call failAt failing: [heap, calls, last, out, ret]
DrainLoop(data, failAt, k) ==
    LET fail == data # <<>> /\ failAt = k + 1
        r == NextOp(data, fail)
        call == [op |-> "next", ret |-> r.ret, fail |-> fail, id |-> PoppedId(r.popped)]
        lastCall == [op |-> "next", ret |-> r.ret, fail |-> fail,
                     pre |-> data, popped |-> r.popped]
    IN  IF r.ret.kind = "Line"
        THEN LET d == DrainLoop(r.heap, failAt, k + 1) IN
             [heap |-> d.heap, calls |-> <<call>> \o d.calls, last |-> d.last,
              out |-> <<r.ret.line>> \o d.out, ret |-> d.ret]
        ELSE [heap |-> r.heap, calls |-> <<call>>, last |-> lastCall, out |-> <<>>,
              ret |-> IF IsErr(r.ret) THEN r.ret ELSE RetOk]

\* heap.print_sorted_lines(), the read of its call failAt of next() failing
\* (none if failAt is 0)
PrintSortedLines(failAt) ==
    /\ pc = "idle"
    /\ failAt > 0 => Fails < MaxFails
    /\ LET d == DrainLoop(heap, failAt, 0) IN
       /\ failAt > 0 => d.last.fail
       /\ heap' = d.heap
       /\ log' = log \o d.calls
       /\ last' = d.last
       /\ stdout' = stdout \o d.out
       /\ drainRet' = d.ret
    /\ drainFrom' = Len(log)
    /\ pc' = "returned"
    /\ UNCHANGED inputs

\* the labels to register a stream under: those in use and one more (which
\* label comes first makes no difference)
NextLabels ==
    LET used == {inputs[i].filename : i \in DOMAIN inputs} IN
    used \cup (IF "file1" \notin used THEN {"file1"} ELSE Labels)

Next ==
    \/ \E filename \in NextLabels, n \in 0..(MaxTotalLines - TotalLines(inputs)) :
           \E bytes \in StreamsOf(n), fail \in BOOLEAN :
               AddReader(filename, bytes, fail) /\ UNCHANGED <<args, mainRet>>
    \/ \E fail \in BOOLEAN : NextCall(fail) /\ UNCHANGED <<args, mainRet>>
    \/ \E failAt \in 0..MaxTotalLines :
           PrintSortedLines(failAt) /\ UNCHANGED <<args, mainRet>>

Spec == Init /\ [][Next]_vars

(***************************************************************************)
(* Vocabulary of the properties.                                           *)
(***************************************************************************)
\* a record without its line terminator
StripTerminator(buf) ==
    IF buf # <<>> /\ buf[Len(buf)] = NL[1] THEN SubSeq(buf, 1, Len(buf) - 1) ELSE buf

RECURSIVE Records(_)
\* the lines of a byte stream: its records, each without its terminator
Records(bytes) ==
    IF bytes = <<>> THEN <<>>
    ELSE LET r == ReadLine(bytes) IN <<StripTerminator(r.buf)>> \o Records(r.rest)

\* non-decreasing lexicographic order
Sorted(ls) == \A i \in 1..(Len(ls) - 1) : StrCmp(ls[i], ls[i + 1]) # "Greater"

Count(ls, x) == Cardinality({i \in DOMAIN ls : ls[i] = x})

SameMultiset(ls, ms) ==
    /\ Len(ls) = Len(ms)
    /\ \A i \in DOMAIN ls : Count(ls, ls[i]) = Count(ms, ls[i])

RECURSIVE LinesOf(_)
\* the lines of the streams ins, one stream after the other
LinesOf(ins) ==
    IF ins = <<>> THEN <<>> ELSE Records(ins[1].bytes) \o LinesOf(Tail(ins))

\* the calls of next() so far
NextLog == SelectSeq(log, LAMBDA c : c.op = "next")

RECURSIVE UpToEnd(_)
\* the results of the calls cs before the first end-of-sequence
UpToEnd(cs) ==
    IF cs = <<>> \/ cs[1].ret.kind = "None" THEN <<>>
    ELSE <<cs[1].ret>> \o UpToEnd(Tail(cs))

\* every add_reader call came before every next() call
RegisteredFirst ==
    \A i, j \in DOMAIN log : (log[i].op = "next" /\ log[j].op = "add_reader") => j < i

\* next() has returned end-of-sequence
Drained == \E i \in DOMAIN log : log[i].op = "next" /\ log[i].ret.kind = "None"

DistinctLabels ==
    \A i, j \in DOMAIN inputs : i # j => inputs[i].filename # inputs[j].filename

SharedLabels ==
    /\ Len(inputs) >= 2
    /\ \A i, j \in DOMAIN inputs : inputs[i].filename = inputs[j].filename

InputsSorted == \A i \in DOMAIN inputs : Sorted(Records(inputs[i].bytes))

\* the results up to end-of-sequence are lines, in non-decreasing order, and
\* are the lines of the inputs, each as often as it occurs there
MergedOutput ==
    LET out == UpToEnd(NextLog)
        lines == [i \in DOMAIN out |-> out[i].line]
    IN  /\ \A i \in DOMAIN out : out[i].kind = "Line"
        /\ Sorted(lines)
        /\ SameMultiset(lines, LinesOf(inputs))

(***************************************************************************)
(* C1: streams registered under pairwise distinct labels, each sorted, no  *)
(* read failing: the results of next() up to end-of-sequence hold no error *)
(* and are exactly the input lines in non-decreasing order.                *)
(* Stated as the claim states it, with a line being the record without its *)
(* terminator; it fails on a line that ends with a space.                  *)
(***************************************************************************)
C1_MergeOfDistinctLabels ==
    (Drained /\ RegisteredFirst /\ Fails = 0 /\ DistinctLabels /\ InputsSorted)
        => MergedOutput

\* the results up to end-of-sequence are lines, in non-decreasing order, as
\* many as the inputs have
MergedInOrder ==
    LET out == UpToEnd(NextLog)
        lines == [i \in DOMAIN out |-> out[i].line]
    IN  /\ \A i \in DOMAIN out : out[i].kind = "Line"
        /\ Sorted(lines)
        /\ Len(lines) = Len(LinesOf(inputs))

(***************************************************************************)
(* C2: sorted streams that share a label, registered in any order: the     *)
(* results of next() hold no error and are every line of every stream once *)
(* in non-decreasing order.  Stated for the order and the number of the    *)
(* results only, so that trailing whitespace in a line plays no part.      *)
(***************************************************************************)
C2_MergeOfSharedLabels ==
    (Drained /\ RegisteredFirst /\ Fails = 0 /\ SharedLabels /\ InputsSorted)
        => MergedInOrder

(***************************************************************************)
(* C3: when next() pops the head h of a stream and the next line of that   *)
(* stream is strictly less than h, the call returns the out-of-order error *)
(* (kind Other) that names the label the stream was registered under, and  *)
(* not h, whatever else is in the heap.                                    *)
(***************************************************************************)
C3_OutOfOrderReported ==
    (last.op = "next" /\ last.popped # <<>> /\ ~last.fail) =>
        LET e == last.popped[1]
            r == ReadLine(e.reader.rest)
        IN  (r.n > 0 /\ (\/ StrLess(StripTerminator(r.buf), e.first_line)
                         \/ StrLess(TrimEnd(r.buf), e.first_line)))
                => last.ret = RetOutOfOrder(inputs[e.reader.id].filename)

\* an out-of-order error while a stream under another label is in the heap
C3_Witness ==
    /\ last.op = "next"
    /\ last.ret.kind = "ErrOther"
    /\ \E i \in DOMAIN last.pre : last.pre[i].filename # last.ret.label

(***************************************************************************)
(* C4: after next() has reported an ordering violation for a stream, the   *)
(* cursor of that stream is not in the heap, and no later next() call pops *)
(* that stream.                                                            *)
(***************************************************************************)
C4_CursorDiscarded ==
    /\ (last.op = "next" /\ last.ret.kind = "ErrOther") =>
           \A k \in DOMAIN heap : heap[k].reader.id # last.popped[1].reader.id
    /\ \A i, j \in DOMAIN log :
           (i < j /\ log[i].op = "next" /\ log[i].ret.kind = "ErrOther" /\ log[j].op = "next")
               => log[j].id # log[i].id

(***************************************************************************)
(* What the code does where C4 says the cursor is discarded: readd_reader  *)
(* has pushed the cursor before next() compares the lines, so after the    *)
(* error the cursor is in the heap, exactly once, its head the line just   *)
(* read and its reader past that line; and next() does not return          *)
(* end-of-sequence before a later call has popped that stream again.       *)
(***************************************************************************)
CursorReinsertedAfterViolation ==
    /\ (last.op = "next" /\ last.ret.kind = "ErrOther") =>
           LET e == last.popped[1]
               r == ReadLine(e.reader.rest)
           IN  /\ Cardinality({k \in DOMAIN heap : heap[k].reader.id = e.reader.id}) = 1
               /\ \E k \in DOMAIN heap :
                      heap[k] = Entry(e.filename, [id |-> e.reader.id, rest |-> r.rest],
                                      TrimEnd(r.buf))
    /\ \A i, j \in DOMAIN log :
           (i < j /\ log[i].op = "next" /\ log[i].ret.kind = "ErrOther"
                  /\ log[j].op = "next" /\ log[j].ret.kind = "None")
               => \E k \in (i + 1)..(j - 1) : log[k].op = "next" /\ log[k].id = log[i].id

(***************************************************************************)
(* C5: if no stream was registered, or every registered stream is empty,   *)
(* every call of next() returns end-of-sequence: none returns a line or an *)
(* error.                                                                  *)
(***************************************************************************)
C5_EmptyInputsGiveNothing ==
    (\A i \in DOMAIN inputs : inputs[i].bytes = <<>>) =>
        \A j \in DOMAIN log : log[j].op = "next" => log[j].ret = RetNone

\* empty streams were registered, their reads succeeding, and next() was called
C5_Witness ==
    /\ Len(inputs) >= 2
    /\ \A i \in DOMAIN inputs : inputs[i].bytes = <<>>
    /\ Fails = 0
    /\ last.op = "next"

\* the entries of a heap, as a set (a stream has one reader, so the entries
\* of a heap differ)
Entries(data) == {data[k] : k \in DOMAIN data}

(***************************************************************************)
(* C6: add_reader on a non-empty stream reads exactly one line, inserts    *)
(* exactly one cursor, whose head is that line, and returns that line;     *)
(* add_reader on a stream without data returns Ok(None) and leaves the     *)
(* heap as it was; the cursors already in the heap are unchanged.          *)
(* Stated as the claim states it, with a line being the record without its *)
(* terminator; it fails on a line that ends with a space.                  *)
(***************************************************************************)
C6_AddReaderInsertsFirstLine ==
    (last.op = "add_reader" /\ ~last.fail) =>
        LET in == inputs[Len(inputs)]
            r == ReadLine(in.bytes)
            line == StripTerminator(r.buf)
        IN  IF in.bytes # <<>>
            THEN /\ Len(heap) = Len(last.pre) + 1
                 /\ Entries(heap) = Entries(last.pre)
                        \cup {Entry(in.filename, [id |-> Len(inputs), rest |-> r.rest], line)}
                 /\ last.ret = RetLine(line)
            ELSE /\ heap = last.pre
                 /\ last.ret = RetNone

(***************************************************************************)
(* C7: print_sorted_lines writes the lines that next() produces, in order, *)
(* and stops at the first error: it returns that error, having written     *)
(* every line before it and none after it, and calls next() no more;       *)
(* without an error it returns Ok only after next() has returned           *)
(* end-of-sequence.                                                        *)
(***************************************************************************)
C7_DrainStopsAtFirstError ==
    pc = "returned" =>
        LET calls == SubSeq(log, drainFrom + 1, Len(log))
            n == Len(calls)
            lines == SelectSeq(calls, LAMBDA c : c.ret.kind = "Line")
        IN  /\ n >= 1
            /\ \A i \in 1..n : calls[i].op = "next"
            /\ \A i \in 1..(n - 1) : calls[i].ret.kind = "Line"
            /\ calls[n].ret.kind # "Line"
            /\ stdout = [i \in DOMAIN lines |-> lines[i].ret.line]
            /\ IsErr(calls[n].ret) => drainRet = calls[n].ret
            /\ calls[n].ret.kind = "None" <=> drainRet = RetOk
            /\ last.ret = calls[n].ret
            /\ heap = NextOp(last.pre, last.fail).heap

\* print_sorted_lines has returned an error after writing a line, with a
\* cursor still in the heap
C7_Witness ==
    /\ pc = "returned"
    /\ IsErr(drainRet)
    /\ stdout # <<>>
    /\ heap # <<>>

(***************************************************************************)
(* C8: once a call of next() has returned end-of-sequence, every later     *)
(* call of next() returns end-of-sequence too, as long as add_reader is    *)
(* not called in between.                                                  *)
(***************************************************************************)
C8_ExhaustionIsSticky ==
    \A i, j \in DOMAIN log :
        (/\ i < j
         /\ log[i].op = "next" /\ log[i].ret.kind = "None"
         /\ log[j].op = "next"
         /\ \A k \in i..j : log[k].op # "add_reader")
            => log[j].ret.kind = "None"

\* next() gave a line, then end-of-sequence, and was called again after that
C8_Witness ==
    \E i \in DOMAIN log :
        /\ i + 2 = Len(log)
        /\ log[i].op = "next" /\ log[i].ret.kind = "Line"
        /\ log[i + 1].op = "next" /\ log[i + 1].ret.kind = "None"
        /\ log[i + 2].op = "next"

(***************************************************************************)
(* C9: a failed read is returned as an error by the call in progress and   *)
(* the cursor is not (re)inserted: a failed first read in add_reader       *)
(* leaves the heap as it was; a failed read in next() leaves the heap      *)
(* without the popped cursor and with every other cursor unchanged.        *)
(***************************************************************************)
C9_ReadFailurePropagated ==
    last.fail =>
        /\ last.ret = RetReadErr
        /\ last.op = "add_reader" => heap = last.pre
        /\ last.op = "next" =>
               /\ last.popped # <<>>
               /\ Len(heap) = Len(last.pre) - 1
               /\ Entries(heap) = Entries(last.pre) \ {last.popped[1]}
               /\ \A k \in DOMAIN heap : heap[k].reader.id # last.popped[1].reader.id

\* the read failed in next() while another cursor was in the heap
C9_Witness ==
    /\ last.fail
    /\ last.op = "next"
    /\ Len(last.pre) >= 2

(***************************************************************************)
(* C10, as claimed: next() returns the popped head in every case but a     *)
(* detected ordering violation, also when the read of the following line   *)
(* fails.                                                                  *)
(***************************************************************************)
C10_HeadUnlessViolation ==
    (last.op = "next" /\ last.popped # <<>> /\ last.ret.kind # "ErrOther")
        => last.ret = RetLine(last.popped[1].first_line)

(***************************************************************************)
(* C10, amended: next() returns the popped head in every case but a        *)
(* detected ordering violation and a failed read of the following line:    *)
(* it returns the head when the stream has no further line and when the    *)
(* following line, without its trailing whitespace, is not smaller, and    *)
(* the read error when the read fails.                                     *)
(***************************************************************************)
C10_HeadUnlessViolationOrReadError ==
    (last.op = "next" /\ last.popped # <<>>) =>
        LET e == last.popped[1]
            r == ReadLine(e.reader.rest)
        IN  /\ last.fail => last.ret = RetReadErr
            /\ (~last.fail /\ r.n = 0) => last.ret = RetLine(e.first_line)
            /\ (~last.fail /\ r.n > 0 /\ ~StrLess(TrimEnd(r.buf), e.first_line))
                   => last.ret = RetLine(e.first_line)
            /\ (~last.fail /\ last.ret.kind # "ErrOther") => last.ret = RetLine(e.first_line)

\* the read of the following line failed and next() returned the error
C10_Witness ==
    /\ last.op = "next"
    /\ last.popped # <<>>
    /\ last.fail
    /\ last.ret = RetReadErr

\* the position in its stream of the record that is the head of the entry e
HeadIndex(e) ==
    Len(Records(inputs[e.reader.id].bytes)) - Len(Records(e.reader.rest))

\* the calls of next() before the last call that popped the stream id
PopsBefore(id) ==
    {j \in 1..(Len(log) - 1) : log[j].op = "next" /\ log[j].id = id}

(***************************************************************************)
(* C11, as claimed: when next() returns the out-of-order error for a line  *)
(* followed by a smaller line, earlier calls of next() have produced that  *)
(* earlier line: the stream has given as many lines as it has records up   *)
(* to and including that line.                                             *)
(***************************************************************************)
C11_ErrorOneLineLate ==
    (last.op = "next" /\ last.ret.kind = "ErrOther") =>
        LET e == last.popped[1] IN
        Cardinality({j \in PopsBefore(e.reader.id) : log[j].ret.kind = "Line"})
            >= HeadIndex(e)

(***************************************************************************)
(* C11, amended: the out-of-order error is returned in the place of the    *)
(* earlier line of the pair.  The call that returns it has popped the      *)
(* earlier line, record k of its stream, and has read record k + 1, which  *)
(* is strictly smaller (both without their trailing whitespace); the       *)
(* stream was popped k - 1 times before, once for each record before k, so *)
(* no call has produced record k and this one does not either.             *)
(***************************************************************************)
C11_ErrorReplacesEarlierLine ==
    (last.op = "next" /\ last.ret.kind = "ErrOther") =>
        LET e == last.popped[1]
            r == ReadLine(e.reader.rest)
            k == HeadIndex(e)
            recs == Records(inputs[e.reader.id].bytes)
        IN  /\ k >= 1 /\ k + 1 <= Len(recs)
            /\ e.first_line = TrimEnd(recs[k])
            /\ r.n > 0
            /\ TrimEnd(r.buf) = TrimEnd(recs[k + 1])
            /\ StrLess(TrimEnd(recs[k + 1]), TrimEnd(recs[k]))
            /\ Cardinality(PopsBefore(e.reader.id)) = k - 1
            /\ last.ret # RetLine(e.first_line)

\* the error comes for the second line of a stream, whose first line an
\* earlier call has produced
C11_Witness ==
    /\ last.op = "next"
    /\ last.ret.kind = "ErrOther"
    /\ HeadIndex(last.popped[1]) = 2
    /\ \E j \in PopsBefore(last.popped[1].reader.id) : log[j].ret.kind = "Line"

(***************************************************************************)
(* A wider specification for heaps of more than two cursors: up to         *)
(* MaxReadersWide streams of one or two records over three lines, under up *)
(* to four labels, all registered before the first next(), no read         *)
(* failing.                                                                *)
(***************************************************************************)
\* number of add_reader calls
MaxReadersWide == 5
\* records of all input streams together
MaxLinesWide == 6

LineSetWide == { <<97>>, <<98>>, <<99>> }
LabelsWide == <<"file1", "file2", "file3", "file4">>

\* the streams of n records over LineSetWide
StreamsWide(n) == { Join(ls) : ls \in [1..n -> LineSetWide] }

\* the labels to register a stream under: those in use and the first one not
\* in use
NextLabelsWide ==
    LET used == {inputs[i].filename : i \in DOMAIN inputs}
        free == {k \in DOMAIN LabelsWide : LabelsWide[k] \notin used}
    IN  used \cup {LabelsWide[k] : k \in {j \in free : \A i \in free : j <= i}}

\* heap.add_reader(filename, bytes) before the first call of next()
AddReaderWide(filename, bytes) ==
    /\ pc = "idle"
    /\ Len(inputs) < MaxReadersWide
    /\ LET r == ReaddReader(heap, filename, [id |-> Len(inputs) + 1, rest |-> bytes], FALSE) IN
       /\ heap' = r.heap
       /\ inputs' = Append(inputs, [filename |-> filename, bytes |-> bytes])
       /\ log' = Append(log, [op |-> "add_reader", ret |-> r.ret, fail |-> FALSE, id |-> Len(inputs) + 1])
       /\ last' = [op |-> "add_reader", ret |-> r.ret, fail |-> FALSE,
                   pre |-> heap, popped |-> <<>>]
    /\ UNCHANGED <<pc, stdout, drainRet, drainFrom>>

NextWide ==
    \/ /\ last.op # "next"
       /\ \E filename \in NextLabelsWide, n \in 1..2 :
              \E bytes \in StreamsWide(n) :
                  /\ TotalLines(inputs) + n <= MaxLinesWide
                  /\ AddReaderWide(filename, bytes)
       /\ UNCHANGED <<args, mainRet>>
    \/ NextCall(FALSE) /\ UNCHANGED <<args, mainRet>>

SpecWide == Init /\ [][NextWide]_vars

\* the labels of the entries of a heap differ
DistinctInHeap(data) ==
    \A i, j \in DOMAIN data : i # j => data[i].filename # data[j].filename

(***************************************************************************)
(* C12: whenever next() pops from a heap whose cursors have pairwise       *)
(* distinct labels, the head of the popped cursor is less than or equal to *)
(* the head of every cursor that was in the heap.                          *)
(***************************************************************************)
C12_PoppedIsLeast ==
    (last.op = "next" /\ last.popped # <<>> /\ DistinctInHeap(last.pre)) =>
        \A k \in DOMAIN last.pre :
            StrCmp(last.popped[1].first_line, last.pre[k].first_line) # "Greater"

(***************************************************************************)
(* What holds where C12 fails: when the labels of all the streams          *)
(* registered so far differ, the popped head is the least one.             *)
(***************************************************************************)
PoppedIsLeastOfDistinctStreams ==
    (last.op = "next" /\ last.popped # <<>> /\ DistinctLabels) =>
        \A k \in DOMAIN last.pre :
            StrCmp(last.popped[1].first_line, last.pre[k].first_line) # "Greater"

(***************************************************************************)
(* C13, as claimed: once next() has returned end-of-sequence the heap is   *)
(* empty for ever, whatever calls of add_reader and next() follow.         *)
(***************************************************************************)
C13_NeverActiveAgain ==
    Drained => heap = <<>>

(***************************************************************************)
(* C13, amended: once next() has returned end-of-sequence the heap is      *)
(* empty as long as no add_reader call is made with a stream that has      *)
(* data; an add_reader call with such a stream, its read not failing,      *)
(* inserts one cursor and returns the line read, also after                *)
(* end-of-sequence, and the heap is non-empty again.                       *)
(***************************************************************************)
C13_ExhaustedUntilAddReader ==
    /\ \A i \in DOMAIN log :
           (/\ log[i].op = "next" /\ log[i].ret.kind = "None"
            /\ \A k \in (i + 1)..Len(log) :
                   log[k].op = "add_reader" => inputs[log[k].id].bytes = <<>>)
               => heap = <<>>
    /\ (last.op = "add_reader" /\ ~last.fail /\ inputs[Len(inputs)].bytes # <<>>)
           => (Len(heap) = Len(last.pre) + 1 /\ last.ret.kind = "Line")

\* next() has returned end-of-sequence, a stream was registered after that
\* and next() has returned its line
C13_Witness ==
    \E i \in DOMAIN log :
        /\ i + 2 = Len(log)
        /\ log[i].op = "next" /\ log[i].ret.kind = "None"
        /\ log[i + 1].op = "add_reader" /\ log[i + 1].ret.kind = "Line"
        /\ log[i + 2].op = "next" /\ log[i + 2].ret.kind = "Line"
        /\ log[i + 2].id = log[i + 1].id

\* the calls of next() that popped the stream id
Pops(id) == {j \in DOMAIN log : log[j].op = "next" /\ log[j].id = id}

\* the entries of the heap are cursors of registered streams, at most one for
\* a stream; the head of a cursor is Line of the record last read from its
\* stream, which no call of next() has popped yet; a stream without bytes,
\* or one whose records have all been popped, has no cursor
CursorInvariant(Line(_)) ==
    /\ \A k \in DOMAIN heap :
           LET e == heap[k]
               id == e.reader.id
           IN  /\ id \in DOMAIN inputs
               /\ e.filename = inputs[id].filename
               /\ \A j \in DOMAIN heap : j # k => heap[j].reader.id # id
               /\ LET recs == Records(inputs[id].bytes)
                      h == HeadIndex(e)
                  IN  /\ h >= 1 /\ h <= Len(recs)
                      /\ Records(e.reader.rest) = SubSeq(recs, h + 1, Len(recs))
                      /\ e.first_line = Line(recs[h])
                      /\ Cardinality(Pops(id)) = h - 1
    /\ \A i \in DOMAIN inputs :
           (\/ inputs[i].bytes = <<>>
            \/ Cardinality(Pops(i)) >= Len(Records(inputs[i].bytes)))
               => \A k \in DOMAIN heap : heap[k].reader.id # i

\* a record as it is
AsRead(rec) == rec

(***************************************************************************)
(* C14: in every state each registered stream has at most one cursor in    *)
(* the heap; the head of a cursor is the line last read from its stream    *)
(* (the record without its terminator), read and not yet popped; an empty  *)
(* or exhausted stream has no cursor.  It fails on a line that ends with a *)
(* space.                                                                  *)
(***************************************************************************)
C14_CursorInvariant ==
    CursorInvariant(AsRead)

(***************************************************************************)
(* What holds where C14 fails: the same with the head being the line last  *)
(* read without its trailing whitespace.                                   *)
(***************************************************************************)
CursorInvariantOfTrimmedLines ==
    CursorInvariant(TrimEnd)

\* what next() does with the cursor it popped when the read succeeds, the
\* line read being Line of the record read: if there is a line and it is not
\* less than the popped head, the cursor is back in the heap with that line
\* as its head and its reader after it; if there is none, the cursor is gone
\* and the heap is one cursor smaller; next() returns the popped head
AdvanceOfPopped(Line(_)) ==
    (last.op = "next" /\ last.popped # <<>> /\ ~last.fail) =>
        LET e == last.popped[1]
            r == ReadLine(e.reader.rest)
        IN  /\ (r.n > 0 /\ ~StrLess(Line(r.buf), e.first_line)) =>
                   /\ last.ret = RetLine(e.first_line)
                   /\ Len(heap) = Len(last.pre)
                   /\ Entries(heap) = (Entries(last.pre) \ {e}) \cup
                          {Entry(e.filename, [id |-> e.reader.id, rest |-> r.rest],
                                 Line(r.buf))}
            /\ r.n = 0 =>
                   /\ last.ret = RetLine(e.first_line)
                   /\ Len(heap) = Len(last.pre) - 1
                   /\ Entries(heap) = Entries(last.pre) \ {e}

(***************************************************************************)
(* C15: when next() reads a line that is greater than or equal to the head *)
(* it popped, the cursor is re-inserted with that line (the record without *)
(* its terminator) as its head and next() returns the old head; when the   *)
(* stream has no further line the cursor is not re-inserted, the heap has  *)
(* one cursor less and next() returns the old head.  It fails on a line    *)
(* that ends with a space.                                                 *)
(***************************************************************************)
C15_AdvanceReinserts ==
    AdvanceOfPopped(StripTerminator)

(***************************************************************************)
(* What holds where C15 fails: the same with the line read taken without   *)
(* its trailing whitespace.                                                *)
(***************************************************************************)
AdvanceReinsertsTrimmedLine ==
    AdvanceOfPopped(TrimEnd)

(***************************************************************************)
(* C16: the head of every cursor, the line add_reader returns and the line *)
(* next() returns are records of the input stream with the line terminator *)
(* removed and nothing else: trailing spaces and tabs are kept.  It fails  *)
(* on a line that ends with a space, which trim_end removes.               *)
(***************************************************************************)
C16_OnlyTerminatorRemoved ==
    /\ \A k \in DOMAIN heap :
           heap[k].first_line
               = Records(inputs[heap[k].reader.id].bytes)[HeadIndex(heap[k])]
    /\ (last.op = "add_reader" /\ last.ret.kind = "Line") =>
           last.ret.line = StripTerminator(ReadLine(inputs[Len(inputs)].bytes).buf)
    /\ (last.op = "next" /\ last.ret.kind = "Line") =>
           last.ret.line
               = Records(inputs[last.popped[1].reader.id].bytes)[HeadIndex(last.popped[1])]

(***************************************************************************)
(* The driver, main of src/main.rs.  Its add_file_to_heap is declared to   *)
(* return io::Result<()> and returns heap.add_reader(filename, f), an      *)
(* io::Result<Option<String>>: main.rs does not type-check (E0308), no     *)
(* driver is built, and running it ends with the error of the build,       *)
(* whatever the file arguments are: no file is opened, no stream           *)
(* registered, no line written.                                            *)
(***************************************************************************)
\* the io::Error of fs::File::open
RetOpenErr == [kind |-> "ErrOpen", line |-> <<>>, label |-> ""]

\* the error of the build: mismatched types at main.rs:19
RetBuildErr == [kind |-> "ErrBuild", line |-> <<>>, label |-> ""]

\* a file argument: its path, whether the file opens, its bytes, whether the
\* read of its first line fails
ArgSet ==
    {a \in [filename : Labels, opens : BOOLEAN,
            bytes : UNION {StreamsOf(n) : n \in 0..MaxTotalLines}, fail : BOOLEAN] :
        /\ ~a.opens => (a.bytes = <<>> /\ ~a.fail)
        /\ a.fail => a.bytes = <<>>}

\* env::args(): up to MaxReaders file arguments
ArgLists ==
    {as \in UNION {[1..n -> ArgSet] : n \in 0..MaxReaders} :
        TotalLines(as) <= MaxTotalLines}

InitMain ==
    /\ heap = <<>>
    /\ inputs = <<>>
    /\ log = <<>>
    /\ last = NoCall
    /\ pc = "idle"
    /\ stdout = <<>>
    /\ drainRet = RetNone
    /\ drainFrom = 0
    /\ args \in ArgLists
    /\ mainRet = NotReturned

\* a run of the driver: the build of main.rs fails
Main ==
    /\ mainRet = NotReturned
    /\ mainRet' = RetBuildErr
    /\ UNCHANGED <<heap, inputs, log, last, pc, stdout, drainRet, drainFrom, args>>

NextMain == Main

SpecMain == InitMain /\ [][NextMain]_vars

\* the first argument whose file does not open or whose first read fails, 0
\* if there is none
FirstBad ==
    LET bad == {i \in DOMAIN args : ~args[i].opens \/ args[i].fail} IN
    IF bad = {} THEN 0 ELSE CHOOSE i \in bad : \A j \in bad : i <= j

\* the first error among the results of next(), Ok(()) if there is none
FirstErrorOf(cs) ==
    LET errs == {i \in DOMAIN cs : IsErr(cs[i].ret)} IN
    IF errs = {} THEN RetOk ELSE cs[CHOOSE i \in errs : \A j \in errs : i <= j].ret

(***************************************************************************)
(* C17: main registers the file arguments in their order, each under its   *)
(* path; no line is written and next() is not called before all of them    *)
(* are registered; when a file does not open or its first read fails, main *)
(* returns that error, nothing written; otherwise main returns what the    *)
(* drain returns, its first error or Ok.  It fails for every argument      *)
(* list: the driver is not built.                                          *)
(***************************************************************************)
C17_DriverRegistersThenDrains ==
    /\ Len(inputs) <= Len(args)
    /\ \A i \in DOMAIN inputs :
           /\ inputs[i].filename = args[i].filename
           /\ inputs[i].bytes = args[i].bytes
           /\ log[i].op = "add_reader" /\ log[i].id = i
    /\ (stdout # <<>> \/ Len(log) > Len(inputs)) =>
           (Len(inputs) = Len(args) /\ FirstBad = 0)
    /\ mainRet # NotReturned =>
           IF FirstBad > 0
           THEN /\ mainRet = IF args[FirstBad].opens THEN RetReadErr ELSE RetOpenErr
                /\ Len(inputs) = IF args[FirstBad].opens THEN FirstBad ELSE FirstBad - 1
                /\ stdout = <<>>
                /\ Len(log) = Len(inputs)
           ELSE /\ pc = "returned"
                /\ mainRet = drainRet
                /\ mainRet = FirstErrorOf(NextLog)
                /\ stdout = [i \in 1..(Len(NextLog) - 1) |-> NextLog[i].ret.line]

RECURSIVE Remaining(_)
\* the lines the cursors of a heap stand for: the head of each cursor and
\* the records its reader has not read
Remaining(data) ==
    IF data = <<>> THEN 0
    ELSE 1 + Len(Records(data[1].reader.rest)) + Remaining(Tail(data))

\* the calls of next() so far that returned a line or an error
NonEnd == SelectSeq(NextLog, LAMBDA c : c.ret.kind # "None")

(***************************************************************************)
(* C18: with the streams registered before the first next() and no read    *)
(* failing, every result of next() that is not end-of-sequence uses up one *)
(* line of the inputs: the results so far and the lines the cursors still  *)
(* stand for are as many as the lines of all streams, and next() returns   *)
(* a line or an error exactly that many times and end-of-sequence from     *)
(* then on, whether the streams are sorted or not and whatever their       *)
(* labels.                                                                 *)
(***************************************************************************)
C18_OneResultPerLine ==
    (RegisteredFirst /\ Fails = 0) =>
        /\ Len(NonEnd) + Remaining(heap) = Len(LinesOf(inputs))
        /\ \A i \in DOMAIN NextLog :
               NextLog[i].ret.kind = "None" <=> i > Len(LinesOf(inputs))

\* two streams under one label, one of them out of order, have been drained
\* and next() has returned an error on the way
C18_Witness ==
    /\ RegisteredFirst /\ Fails = 0
    /\ Drained
    /\ SharedLabels
    /\ \E i \in DOMAIN NextLog : NextLog[i].ret.kind = "ErrOther"
    /\ Len(LinesOf(inputs)) = MaxTotalLines

(***************************************************************************)
(* A specification with lines that differ in trailing whitespace only: the *)
(* lines "a", "b" and "b " (a space after the b), the streams registered   *)
(* before the first next(), no read failing.                               *)
(***************************************************************************)
LineSetSpaces == { <<97>>, <<98>>, <<98, 32>> }

\* the streams of n records over LineSetSpaces
StreamsSpaces(n) == { Join(ls) : ls \in [1..n -> LineSetSpaces] }

NextSpaces ==
    \/ /\ last.op # "next"
       /\ \E filename \in NextLabels, n \in 0..(MaxTotalLines - TotalLines(inputs)) :
              \E bytes \in StreamsSpaces(n) : AddReader(filename, bytes, FALSE)
       /\ UNCHANGED <<args, mainRet>>
    \/ NextCall(FALSE) /\ UNCHANGED <<args, mainRet>>

SpecSpaces == Init /\ [][NextSpaces]_vars

\* the calls of next() that popped the stream id, in their order
CallsOf(id) == SelectSeq(NextLog, LAMBDA c : c.id = id)

\* record k of the stream id is followed in its stream by a record whose
\* Line is less than its own
Descends(Line(_), id, k) ==
    LET recs == Records(inputs[id].bytes) IN
    k < Len(recs) /\ StrLess(Line(recs[k + 1]), Line(recs[k]))

\* after a full drain of streams registered before the first next(), no read
\* failing: each stream was popped once for each of its records; the call
\* for a record returned the out-of-order error if the next record of the
\* stream is less, by Line, and a line if not; the errors are as many as
\* the descending pairs of adjacent records
ErrorPerDescent(Line(_)) ==
    (RegisteredFirst /\ Fails = 0 /\ Drained) =>
        /\ \A id \in DOMAIN inputs :
               LET recs == Records(inputs[id].bytes)
                   calls == CallsOf(id)
               IN  /\ Len(calls) = Len(recs)
                   /\ \A k \in DOMAIN recs :
                          IF Descends(Line, id, k)
                          THEN calls[k].ret = RetOutOfOrder(inputs[id].filename)
                          ELSE calls[k].ret.kind = "Line"
        /\ Cardinality({i \in DOMAIN NextLog : NextLog[i].ret.kind = "ErrOther"})
               = Cardinality({p \in (DOMAIN inputs) \X (1..Len(LinesOf(inputs))) :
                                 Descends(Line, p[1], p[2])})

(***************************************************************************)
(* C19: over a full drain of streams registered before the first next(),   *)
(* no read failing, a line is returned by next() if and only if the line   *)
(* after it in its stream is not strictly smaller; a line followed by a    *)
(* strictly smaller one gives one out-of-order error instead, and the      *)
(* errors are as many as the adjacent strictly descending pairs of lines   *)
(* of all streams.  Lines are compared as the records without their        *)
(* terminators; it fails on "b " followed by "b".                          *)
(***************************************************************************)
C19_ErrorPerDescendingPair ==
    ErrorPerDescent(StripTerminator)

(***************************************************************************)
(* What holds where C19 fails: the same with the lines compared without    *)
(* their trailing whitespace.                                              *)
(***************************************************************************)
ErrorPerDescendingPairOfTrimmedLines ==
    ErrorPerDescent(TrimEnd)

====
